---- MODULE Spec2Model ----
(***************************************************************************)
(* WoWLocaleTool (t.py): extraction of localization strings from Lua       *)
(* files.  Text is modelled as a sequence of one-character strings, a path *)
(* as a sequence of segments, each segment a sequence of characters.       *)
(***************************************************************************)
EXTENDS Integers, Sequences, FiniteSets, TLC

VARIABLES
    \* ---- one invocation of the tool after another (Spec) ----
    args,            \* the parsed command line (argparse.Namespace)
    tree,            \* the *.lua candidates and other files below args.source,
                     \* in the order the file system enumerates them
    target,          \* content of <target>/localization_strings.lua, or Absent
    pc,              \* position of the program
    runs,            \* invocations started so far
    excluded_dirs,   \* process_directory's parameter
    identifiers,     \* process_directory's parameter
    pending,         \* what source_dir.rglob("*.lua") has yet to yield: places in tree
    all_strings,     \* process_directory's local
    file_count,      \* process_directory's local
    console,         \* lines printed by the running invocation
    target_at_start, \* content of the target file when the invocation started
    prev_done,       \* the previous invocation completed
    \* ---- extraction from one file (SpecExtract) ----
    site,            \* the call site the file begins with
    text,            \* the content of the file
    strings,         \* result of extract_localization_strings
    block,           \* what the write loop emits for the file
    nfrag,           \* fragments appended to the file's content
    xpc

vars == <<args, tree, target, pc, runs, excluded_dirs, identifiers, pending,
          all_strings, file_count, console, target_at_start, prev_done,
          site, text, strings, block, nfrag, xpc>>

dirVars == <<args, tree, target, pc, runs, excluded_dirs, pending,
             all_strings, file_count, console, target_at_start, prev_done>>

extractVars == <<site, text, strings, block, nfrag, xpc>>

----------------------------------------------------------------------------
\* Characters and names

DQ == "\""
SQ == "'"
NL == "\n"
SP == " "
BadByte == "\\xff"          \* a byte sequence that the configured encoding cannot decode
Absent == <<"absent">>      \* the file does not exist (no content is this sequence)

s_L == <<"L">>
s_AL == <<"A", "L">>
s_C == <<"C">>
s_M == <<"M">>
s_Hello == <<"H", "e", "l", "l", "o">>
s_World == <<"W", "o", "r", "l", "d">>
s_Old == <<"O", "l", "d">>

n_root == <<"/">>
n_u == <<"u">>
n_addon == <<"a", "d", "d", "o", "n">>
n_out == <<"o", "u", "t">>
n_Dict == <<"D", "i", "c", "t">>
n_Locale == <<"L", "o", "c", "a", "l", "e">>
n_locale == <<"l", "o", "c", "a", "l", "e">>
n_Vendor == <<"V", "e", "n", "d", "o", "r">>
n_lib == <<"l", "i", "b">>
n_a_lua == <<"a", ".", "l", "u", "a">>
n_b_lua == <<"b", ".", "l", "u", "a">>
n_c_lua == <<"c", ".", "l", "u", "a">>
n_d_lua == <<"d", ".", "l", "u", "a">>
n_n_txt == <<"n", ".", "t", "x", "t">>
n_old_lua == <<"o", "l", "d", ".", "l", "u", "a">>

\* target_dir / "localization_strings.lua"
TargetFileName ==
    <<"l", "o", "c", "a", "l", "i", "z", "a", "t", "i", "o", "n", "_",
      "s", "t", "r", "i", "n", "g", "s", ".", "l", "u", "a">>

\* "L,AL,C": the default of --identifiers
DefaultIdentifiers == <<"L", ",", "A", "L", ",", "C">>

\* str.lower() on the letters that occur in the model's names
LowerChar(c) ==
    CASE c = "A" -> "a" [] c = "C" -> "c" [] c = "D" -> "d" [] c = "H" -> "h"
      [] c = "L" -> "l" [] c = "M" -> "m" [] c = "O" -> "o" [] c = "V" -> "v"
      [] c = "W" -> "w"
      [] OTHER -> c

Lower(s) == [i \in 1..Len(s) |-> LowerChar(s[i])]

\* \s of the re module
IsSpace(c) == c \in {" ", "\t", "\n", "\r", "\f"}

----------------------------------------------------------------------------
\* main: args.identifiers.split(",")

RECURSIVE SplitFrom(_, _, _)
SplitFrom(s, i, cur) ==
    IF i > Len(s) THEN <<cur>>
    ELSE IF s[i] = "," THEN <<cur>> \o SplitFrom(s, i + 1, <<>>)
    ELSE SplitFrom(s, i + 1, Append(cur, s[i]))

Split(s) == SplitFrom(s, 1, <<>>)

----------------------------------------------------------------------------
\* extract_localization_strings: the pattern
\*   (id1|id2|...)\s*[\[\(](["\'])((?:(?!\2).)*)\2[\]\)]

NoMatch == [ok |-> FALSE, end |-> 0, ident |-> <<>>, lit |-> <<>>]

IsPrefixAt(tok, s, i) ==
    /\ i + Len(tok) - 1 <= Len(s)
    /\ \A k \in 1..Len(tok) : s[i + k - 1] = tok[k]

\* \s* : greedy; what follows must be a bracket, so no shorter run can succeed
RECURSIVE SkipSpace(_, _)
SkipSpace(s, i) ==
    IF i <= Len(s) /\ IsSpace(s[i]) THEN SkipSpace(s, i + 1) ELSE i

\* one step of (?:(?!\2).) : a character other than the quote; '.' is
\* compiled without re.DOTALL, so it does not match a newline
DotNotQuoteMutant(c, q) == c # q
DotNotQuote(c, q) == c # q /\ c # NL

\* ((?:(?!\2).)*) : greedy; every shorter run is followed by a character that
\* is not the quote, so only the longest run can be followed by \2
RECURSIVE RunEnd(_, _, _)
RunEnd(s, i, q) ==
    IF i <= Len(s) /\ DotNotQuote(s[i], q) THEN RunEnd(s, i + 1, q) ELSE i

\* [\]\)] : either closing bracket, whatever the opening bracket was
IsClose(c, open) == c \in {"]", ")"}

\* \2[\]\)] after the run that ends before position e; j is the position of
\* the opening bracket
MatchClose(s, ident, j, e) ==
    IF /\ e + 1 <= Len(s)
       /\ s[e] = s[j + 1]
       /\ IsClose(s[e + 1], s[j])
    THEN [ok |-> TRUE, end |-> e + 2, ident |-> ident, lit |-> SubSeq(s, j + 2, e - 1)]
    ELSE NoMatch

\* [\[\(](["\'])((?:(?!\2).)*) from position j on
MatchOpen(s, ident, j) ==
    IF /\ j + 1 <= Len(s)
       /\ s[j] \in {"[", "("}
       /\ s[j + 1] \in {DQ, SQ}
    THEN MatchClose(s, ident, j, RunEnd(s, j + 2, s[j + 1]))
    ELSE NoMatch

\* the pattern tried at position i with one alternative of group 1
MatchIdentAt(s, i, ident) ==
    IF IsPrefixAt(ident, s, i)
    THEN MatchOpen(s, ident, SkipSpace(s, i + Len(ident)))
    ELSE NoMatch

\* the alternation: the first identifier, in list order, with which the rest
\* of the pattern succeeds
RECURSIVE MatchAt(_, _, _)
OrElse(m, s, i, rest) == IF m.ok THEN m ELSE MatchAt(s, i, rest)

MatchAt(s, i, idents) ==
    IF idents = <<>> THEN NoMatch
    ELSE OrElse(MatchIdentAt(s, i, Head(idents)), s, i, Tail(idents))

\* the positions at which the pattern matches
MatchStarts(s, idents) == {k \in 1..Len(s) : MatchAt(s, k, idents).ok}

LeastFrom(S, i) == CHOOSE k \in S : k >= i /\ \A k2 \in S : k2 >= i => k <= k2

\* the scan of re.findall from position i: the next match is the one at the
\* first position from i on where the pattern matches, and the scan goes on
\* from its end
RECURSIVE ScanFrom(_, _, _, _)
ScanOn(m, s, idents, starts) == <<m>> \o ScanFrom(s, m.end, idents, starts)

ScanFrom(s, i, idents, starts) ==
    IF \A k \in starts : k < i THEN <<>>
    ELSE ScanOn(MatchAt(s, LeastFrom(starts, i), idents), s, idents, starts)

\* re.findall: the non-overlapping matches, left to right
FindAll(s, i, idents) == ScanFrom(s, i, idents, MatchStarts(s, idents))

\* f'{match[0]}["{match[2]}"]'
CompositeKeyMutant(ident, lit) == s_L \o <<"[", DQ>> \o lit \o <<DQ, "]">>
CompositeKey(ident, lit) == ident \o <<"[", DQ>> \o lit \o <<DQ, "]">>

\* a dict is a sequence of <<key, value>> pairs in insertion order
DictKeys(d) == [i \in 1..Len(d) |-> d[i][1]]
DictHas(d, k) == \E i \in 1..Len(d) : d[i][1] = k
DictGet(d, k) == d[CHOOSE i \in 1..Len(d) : d[i][1] = k][2]

\* d[k] = v : an existing key keeps its place
DictSetMutant(d, k, v) == Append(d, <<k, v>>)
DictSet(d, k, v) ==
    IF DictHas(d, k)
    THEN [i \in 1..Len(d) |-> IF d[i][1] = k THEN <<k, v>> ELSE d[i]]
    ELSE Append(d, <<k, v>>)

\* for match in matches: strings[key] = match[2]
RECURSIVE Accumulate(_, _)
Accumulate(matches, n) ==
    IF n = 0 THEN <<>>
    ELSE DictSet(Accumulate(matches, n - 1),
                 CompositeKey(matches[n].ident, matches[n].lit),
                 matches[n].lit)

\* file.read() with the configured encoding
Decodable(data) == \A i \in 1..Len(data) : data[i] # BadByte

\* extract_localization_strings, for a file that can be opened
DecodeFailureResultMutant(data, idents) ==
    LET good == SubSeq(data, 1, (CHOOSE i \in 1..Len(data) : data[i] = BadByte /\ \A k \in 1..(i - 1) : data[k] # BadByte) - 1)
        ms == FindAll(good, 1, idents)
    IN Accumulate(ms, Len(ms))
\* except UnicodeDecodeError: strings is still empty
DecodeFailureResult(data, idents) == <<>>

AccumulateAll(ms) == Accumulate(ms, Len(ms))

extract_localization_strings(data, idents) ==
    IF Decodable(data)
    THEN AccumulateAll(FindAll(data, 1, idents))
    ELSE DecodeFailureResult(data, idents)

----------------------------------------------------------------------------
\* process_directory: the write loop

\* out_file.write(f'{key} = "{value}"\n') for every item of strings
RECURSIVE RenderItems(_)
RenderItems(d) ==
    IF d = <<>> THEN <<>>
    ELSE Head(d)[1] \o <<SP, "=", SP, DQ>> \o Head(d)[2] \o <<DQ, NL>>
         \o RenderItems(Tail(d))

\* one block: "--<file_path>\n", the items, "\n"
RenderBlock(file_path, d) ==
    <<"-", "-">> \o file_path \o <<NL>> \o RenderItems(d) \o <<NL>>

RECURSIVE RenderAll(_)
RenderAll(a) ==
    IF a = <<>> THEN <<>>
    ELSE RenderBlock(Head(a)[1], Head(a)[2]) \o RenderAll(Tail(a))

----------------------------------------------------------------------------
\* Configuration

get_default_excluded_dirs ==
    { <<"l", "a", "n", "g", "u", "a", "g", "e">>,
      <<"l", "a", "n", "g">>,
      <<"l", "o", "c", "a", "l">>,
      <<"l", "o", "c", "a", "l", "e", "s">>,
      <<"l", "o", "c", "a", "l", "e">>,
      <<"l", "o", "c", "a", "l", "s">>,
      <<"d", "i", "c", "t">>,
      <<"l", "i", "b">>,
      <<"l", "i", "b", "s">> }

Range(f) == {f[i] : i \in DOMAIN f}

\* the bounds of the model
MaxFiles == 2
MaxRuns == 2
MaxFragments == 2

\* resolved source directories: one plain, one below a directory named lib
SourceDirs == { <<n_root, n_u, n_addon>>, <<n_root, n_u, n_lib, n_addon>> }

\* resolved target directories: the default <source>/Dict, or one given with -t
\* outside the source directory
TargetDirs(source) == { source \o <<n_Dict>>, <<n_root, n_out>> }

\* values of -e: none, or a directory name and a file name
ExcludeArgs == { <<>>, <<n_Vendor, n_a_lua>> }

ArgsSet ==
    UNION { { [source |-> s, target |-> t, exclude |-> e, identifiers |-> DefaultIdentifiers] :
                t \in TargetDirs(s), e \in ExcludeArgs } : s \in SourceDirs }

\* contents of source files
T_match == s_L \o <<"[", DQ>> \o s_Hello \o <<DQ, "]", SP>> \o s_AL \o <<"(", SQ>> \o s_World \o <<SQ, ")", NL>>
T_none == <<"x", SP, "=", SP, "1", NL>>
T_bad == s_L \o <<"[", DQ>> \o s_Hello \o <<DQ, "]", BadByte, NL>>

\* what an earlier version of the sources left in the target file
T_old == RenderBlock(n_old_lua, <<<<s_L \o <<"[", DQ>> \o s_Old \o <<DQ, "]">>, s_Old>>>>)

\* a file below the source directory; isTarget marks the place of the target
\* file in the enumeration when the target directory lies below the source
File(p, d, r) == [rel |-> p, data |-> d, readable |-> r, isTarget |-> FALSE]

\* the content of a source file, by its name in the tree
Content(d) ==
    CASE d = "match" -> T_match
      [] d = "none" -> T_none
      [] d = "bad" -> T_bad

SourceFiles ==
    { File(<<n_a_lua>>, "match", TRUE),
      File(<<n_a_lua>>, "none", TRUE),
      File(<<n_a_lua>>, "bad", TRUE),
      File(<<n_Locale, n_b_lua>>, "match", TRUE),
      File(<<n_Locale, n_b_lua>>, "match", FALSE),
      File(<<n_locale, n_c_lua>>, "match", TRUE),
      File(<<n_Vendor, n_d_lua>>, "match", TRUE),
      File(<<n_n_txt>>, "match", TRUE) }

IsPathPrefix(a, b) == Len(a) <= Len(b) /\ SubSeq(b, 1, Len(a)) = a

\* the target file's path relative to the source directory
TargetRel(a) == SubSeq(a.target, Len(a.source) + 1, Len(a.target)) \o <<TargetFileName>>

TargetInside(a) == IsPathPrefix(a.source, a.target)

TargetSlot(a) == [rel |-> TargetRel(a), data |-> "target", readable |-> TRUE, isTarget |-> TRUE]

\* sequences without repetition of at most n elements of S
RECURSIVE Arrangements(_, _)
Arrangements(S, n) ==
    IF n = 0 THEN {<<>>}
    ELSE LET shorter == Arrangements(S, n - 1) IN
         shorter \cup { Append(q, x) : q \in {r \in shorter : Len(r) = n - 1}, x \in S }

DistinctPaths(t) == \A i, j \in 1..Len(t) : i # j => t[i].rel # t[j].rel

InsertAt(t, k, x) == SubSeq(t, 1, k - 1) \o <<x>> \o SubSeq(t, k, Len(t))

Trees(a) ==
    LET plain == {t \in Arrangements(SourceFiles, MaxFiles) : DistinctPaths(t)} IN
    IF TargetInside(a)
    THEN UNION { {InsertAt(t, k, TargetSlot(a)) : k \in 1..(Len(t) + 1)} : t \in plain }
    ELSE plain

\* no file is under extraction
NoSite == [ident |-> <<>>, ws |-> <<>>, open |-> "", q |-> "", lit |-> <<>>, close |-> ""]

----------------------------------------------------------------------------
\* process_directory: the scan

\* "*.lua" matched against the last segment of a path
MatchesLua(name) ==
    /\ Len(name) >= 4
    /\ SubSeq(name, Len(name) - 3, Len(name)) = <<".", "l", "u", "a">>

\* source_dir.rglob("*.lua"): the existing files whose name matches, in the
\* order of enumeration, as places in the tree; the target file is among them
\* when it exists below the source directory
rglob(t, tgt) ==
    LET exists(k) == /\ MatchesLua(t[k].rel[Len(t[k].rel)])
                     /\ (t[k].isTarget => tgt # Absent)
    IN SelectSeq([k \in 1..Len(t) |-> k], exists)

\* what file.read() is given: the bytes of the file
ReadData(f, tgt) == IF f.isTarget THEN tgt ELSE Content(f.data)

\* any(excluded.lower() in lua_file.parts for excluded in excluded_dirs)
InParts(name, parts, from, to) == \E k \in from..to : parts[k] = name

IsExcludedMutant(parts, excluded) ==
    \E ex \in excluded : InParts(Lower(ex), parts, Len(args.source) + 1, Len(parts) - 1)
IsExcluded(parts, excluded) ==
    \E ex \in excluded : InParts(Lower(ex), parts, 1, Len(parts))

\* str(relative_path)
RECURSIVE PathStr(_)
PathStr(rel) ==
    IF Len(rel) = 1 THEN rel[1]
    ELSE rel[1] \o <<"/">> \o PathStr(Tail(rel))

\* file_count += 1, for every file that reaches the extractor
CountAfterMutant(n, strs) == IF strs # <<>> THEN n + 1 ELSE n
CountAfter(n, strs) == n + 1

\* the for loop is over when the generator is exhausted; only then is the
\* target file opened
ScanFinishedMutant(p) == TRUE
ScanFinished(p) == p = <<>>

\* target_file.open("w"): the file is created or truncated
OpenForWriteMutant(old) == IF old = Absent THEN <<>> ELSE old
OpenForWrite(old) == <<>>

----------------------------------------------------------------------------
\* Spec: invocations of the tool on one file tree

Init ==
    /\ args \in ArgsSet
    /\ tree \in Trees(args)
    /\ target \in {Absent, T_old}
    /\ pc = "idle"
    /\ runs = 0
    /\ excluded_dirs = {}
    /\ identifiers = <<>>
    /\ pending = <<>>
    /\ all_strings = <<>>
    /\ file_count = 0
    /\ console = <<>>
    /\ target_at_start = target
    /\ prev_done = FALSE
    /\ site = NoSite
    /\ text = <<>>
    /\ strings = <<>>
    /\ block = <<>>
    /\ nfrag = 0
    /\ xpc = "off"

\* main up to the call of process_directory, and process_directory up to the loop
Main ==
    /\ pc \in {"idle", "done", "aborted"}
    /\ runs < MaxRuns
    /\ runs' = runs + 1
    /\ excluded_dirs' = get_default_excluded_dirs \cup Range(args.exclude)
    /\ identifiers' = Split(args.identifiers)
    /\ pending' = rglob(tree, target)
    /\ all_strings' = <<>>
    /\ file_count' = 0
    /\ console' = <<>>
    /\ target_at_start' = target
    /\ prev_done' = (pc = "done")
    /\ pc' = "scan"
    /\ UNCHANGED <<args, tree, target>>
    /\ UNCHANGED extractVars

\* one iteration of the loop that ends in `continue`
SkipExcluded ==
    /\ pc = "scan"
    /\ pending # <<>>
    /\ IsExcluded(args.source \o tree[Head(pending)].rel, excluded_dirs)
    /\ pending' = Tail(pending)
    /\ UNCHANGED <<args, tree, target, pc, runs, excluded_dirs, identifiers,
                   all_strings, file_count, console, target_at_start, prev_done>>
    /\ UNCHANGED extractVars

\* the body of the loop from the call of the extractor on
Collect(f, data, strs) ==
    /\ console' = console
          \o <<[kind |-> "Processing", path |-> f.rel]>>
          \o (IF Decodable(data) THEN <<>>
              ELSE <<[kind |-> "DecodeError", path |-> f.rel]>>)
    /\ all_strings' = IF strs # <<>>
                      THEN DictSet(all_strings, PathStr(f.rel), strs)
                      ELSE all_strings
    /\ file_count' = CountAfter(file_count, strs)

\* one iteration of the loop that reaches the extractor and returns from it
ProcessFile ==
    /\ pc = "scan"
    /\ pending # <<>>
    /\ ~IsExcluded(args.source \o tree[Head(pending)].rel, excluded_dirs)
    /\ tree[Head(pending)].readable
    /\ Collect(tree[Head(pending)], ReadData(tree[Head(pending)], target),
               extract_localization_strings(ReadData(tree[Head(pending)], target), identifiers))
    /\ pending' = Tail(pending)
    /\ UNCHANGED <<args, tree, target, pc, runs, excluded_dirs, identifiers,
                   target_at_start, prev_done>>
    /\ UNCHANGED extractVars

\* file_path.open raises an error that is not a UnicodeDecodeError: nothing
\* catches it and the invocation ends
AbortOnError ==
    /\ pc = "scan"
    /\ pending # <<>>
    /\ ~IsExcluded(args.source \o tree[Head(pending)].rel, excluded_dirs)
    /\ ~tree[Head(pending)].readable
    /\ console' = Append(console, [kind |-> "Processing", path |-> tree[Head(pending)].rel])
    /\ pc' = "aborted"
    /\ UNCHANGED <<args, tree, target, runs, excluded_dirs, identifiers, pending,
                   all_strings, file_count, target_at_start, prev_done>>
    /\ UNCHANGED extractVars

\* with target_file.open("w", ...) as out_file
OpenTarget ==
    /\ pc = "scan"
    /\ ScanFinished(pending)
    /\ target' = OpenForWrite(target)
    /\ pc' = "write"
    /\ UNCHANGED <<args, tree, runs, excluded_dirs, identifiers, pending,
                   all_strings, file_count, console, target_at_start, prev_done>>
    /\ UNCHANGED extractVars

\* the write loop, the close of the file and the summary
WriteTarget ==
    /\ pc = "write"
    /\ target' = target \o RenderAll(all_strings)
    /\ console' = Append(console, [kind |-> "Processed", count |-> file_count])
    /\ pc' = "done"
    /\ UNCHANGED <<args, tree, runs, excluded_dirs, identifiers, pending,
                   all_strings, file_count, target_at_start, prev_done>>
    /\ UNCHANGED extractVars

Next ==
    \/ Main
    \/ SkipExcluded
    \/ ProcessFile
    \/ AbortOnError
    \/ OpenTarget
    \/ WriteTarget

Spec == Init /\ [][Next]_vars

----------------------------------------------------------------------------
\* SpecExtract: extract_localization_strings and the write loop on one file

\* a call site as it may stand in a Lua file
CallSite(ident, ws, open, q, lit, close) ==
    ident \o ws \o <<open, q>> \o lit \o <<q, close>>

SiteIdents == {s_L, s_AL, s_M}
SiteSpaces == {<<>>, <<SP>>}
SiteOpens == {"[", "("}
SiteQuotes == {DQ, SQ}
SiteCloses == {"]", ")", "}"}
SiteLiterals ==
    { <<>>, s_Hello, <<"a", SQ, "b">>, <<"a", DQ, "b">>, <<"a", NL, "b">> }

SiteParams ==
    [ident : SiteIdents, ws : SiteSpaces, open : SiteOpens, q : SiteQuotes,
     lit : SiteLiterals, close : SiteCloses]

SiteOf(p) == CallSite(p.ident, p.ws, p.open, p.q, p.lit, p.close)

\* what may follow the first call site in the file
Fragments ==
    { <<SP>> \o CallSite(s_AL, <<>>, "(", SQ, s_World, ")"),
      CallSite(s_L, <<>>, "(", SQ, s_Hello, ")"),
      <<"X">> \o CallSite(s_L, <<SP>>, "[", DQ, s_World, ")"),
      CallSite(s_L, <<>>, "[", DQ, <<"x">>, "]") \o <<NL>>
          \o CallSite(s_C, <<>>, "[", DQ, <<"x">>, "]"),
      <<BadByte>> }

InitExtract ==
    /\ site \in SiteParams
    /\ text = SiteOf(site)
    /\ identifiers = Split(DefaultIdentifiers)
    /\ strings = <<>>
    /\ block = <<>>
    /\ nfrag = 0
    /\ xpc = "read"
    /\ args = [source |-> <<n_root, n_u, n_addon>>, target |-> <<n_root, n_out>>,
               exclude |-> <<>>, identifiers |-> DefaultIdentifiers]
    /\ tree = <<>>
    /\ target = Absent
    /\ pc = "off"
    /\ runs = 0
    /\ excluded_dirs = {}
    /\ pending = <<>>
    /\ all_strings = <<>>
    /\ file_count = 0
    /\ console = <<>>
    /\ target_at_start = Absent
    /\ prev_done = FALSE

\* the file has more content
AppendFragment ==
    /\ xpc = "read"
    /\ nfrag < MaxFragments
    /\ \E f \in Fragments : text' = text \o f
    /\ nfrag' = nfrag + 1
    /\ UNCHANGED <<site, strings, block, xpc, identifiers>>
    /\ UNCHANGED dirVars

\* strings = extract_localization_strings(lua_file, identifiers, encoding)
Extract ==
    /\ xpc = "read"
    /\ strings' = extract_localization_strings(text, identifiers)
    /\ xpc' = "extracted"
    /\ UNCHANGED <<site, text, block, nfrag, identifiers>>
    /\ UNCHANGED dirVars

\* if strings: the file gets its block in the target
WriteBlock ==
    /\ xpc = "extracted"
    /\ strings # <<>>
    /\ block' = RenderBlock(n_a_lua, strings)
    /\ xpc' = "written"
    /\ UNCHANGED <<site, text, strings, nfrag, identifiers>>
    /\ UNCHANGED dirVars

NextExtract ==
    \/ AppendFragment
    \/ Extract
    \/ WriteBlock

SpecExtract == InitExtract /\ [][NextExtract]_vars

----------------------------------------------------------------------------
\* Vocabulary of the properties

\* the candidates of the running invocation
Enumerated ==
    LET places == rglob(tree, target_at_start) IN
    [i \in 1..Len(places) |->
        [rel |-> tree[places[i]].rel, data |-> ReadData(tree[places[i]], target_at_start)]]

\* the candidates that the exclusion test lets through
Passing(en) ==
    {i \in 1..Len(en) : ~IsExcluded(args.source \o en[i].rel, excluded_dirs)}

NonExcluded == Passing(Enumerated)

\* the relative paths on the "Processing:" lines of the console
ProcessedPaths ==
    {console[i].path : i \in {k \in 1..Len(console) : console[k].kind = "Processing"}}

\* IDENT["literal"], written out
Canonical(ident, lit) == ident \o <<"[">> \o <<"\"">> \o lit \o <<"\"">> \o <<"]">>

HelloWorldStrings ==
    << <<Canonical(s_L, s_Hello), s_Hello>>, <<Canonical(s_AL, s_World), s_World>> >>

\* from position i the text reads: ident, n white-space characters, an
\* opening bracket, a quote, lit, the same quote, a closing bracket
IsCallSiteOf(s, i, n, ident, lit) ==
    LET j == i + Len(ident) + n IN
    /\ j + Len(lit) + 3 <= Len(s)
    /\ s[j] \in {"[", "("}
    /\ s[j + 1] \in {"\"", "'"}
    /\ s[j + 2 + Len(lit)] = s[j + 1]
    /\ s[j + 3 + Len(lit)] \in {"]", ")"}
    /\ \A k \in (i + Len(ident))..(j - 1) : s[k] \in {" ", "\t", "\n", "\r", "\f"}
    /\ SubSeq(s, j + 2, j + 1 + Len(lit)) = lit

Occurrences(s, ident, lit) ==
    {i \in 1..Len(s) :
        /\ i + Len(ident) - 1 <= Len(s)
        /\ SubSeq(s, i, i + Len(ident) - 1) = ident
        /\ \E n \in 0..(Len(s) - i) : IsCallSiteOf(s, i, n, ident, lit)}

Min(S) == CHOOSE x \in S : \A y \in S : x <= y

\* the lines of a text, a final empty one included
RECURSIVE LinesFrom(_, _, _)
LinesFrom(s, i, cur) ==
    IF i > Len(s) THEN <<cur>>
    ELSE IF s[i] = "\n" THEN <<cur>> \o LinesFrom(s, i + 1, <<>>)
    ELSE LinesFrom(s, i + 1, Append(cur, s[i]))

Lines(s) == LinesFrom(s, 1, <<>>)

\* a call site of the form the pattern is meant for
WellFormed(p) ==
    /\ p.ident \in Range(identifiers)
    /\ p.close \in {"]", ")"}
    /\ p.q \notin Range(p.lit)
    /\ "\n" \notin Range(p.lit)

----------------------------------------------------------------------------
\* C1: every file whose path has a segment equal, case-insensitively, to an
\* excluded name is skipped: no "Processing:" line is ever printed for a file
\* with such a segment.
C1_CaseInsensitiveExclusion ==
    \A i \in 1..Len(console) :
        console[i].kind = "Processing" =>
            ~ \E ex \in excluded_dirs :
                \E seg \in Range(args.source \o console[i].path) :
                    Lower(seg) = Lower(ex)

\* C2: when an invocation completes right after a completed invocation on the
\* same arguments and sources, the target file is what the earlier one left.
C2_SecondRunIdentical ==
    (pc = "done" /\ prev_done) => target = target_at_start

\* n is the count, reported and kept, and bounds the blocks; the candidates
\* without a match have no block
CountIs(en, n) ==
    /\ console[Len(console)] = [kind |-> "Processed", count |-> n]
    /\ file_count = n
    /\ Len(all_strings) <= n
    /\ \A i \in 1..Len(en) :
          (en[i].data \in {T_none, T_bad}) => ~DictHas(all_strings, PathStr(en[i].rel))

\* C3: the reported count is the number of non-excluded *.lua files, whether
\* or not they yielded strings; a file without a match has no block, and the
\* blocks are never more than the count.
C3_CountIsNonExcluded ==
    pc = "done" => CountIs(Enumerated, Cardinality(NonExcluded))

C3_Witness ==
    /\ pc = "done"
    /\ Len(Enumerated) = 3
    /\ file_count = 2
    /\ Len(all_strings) = 1
    /\ \E i \in NonExcluded : Enumerated[i].data = T_none

\* file f, which has the result own when extracted on its own, has that
\* result in all_strings, and no entry when it cannot be decoded
OwnResultKept(f, own) ==
    /\ ~Decodable(f.data) => ~DictHas(all_strings, PathStr(f.rel))
    /\ (Decodable(f.data) /\ own # <<>>) =>
          /\ DictHas(all_strings, PathStr(f.rel))
          /\ DictGet(all_strings, PathStr(f.rel)) = own
    /\ f.data = T_match =>
          /\ DictHas(all_strings, PathStr(f.rel))
          /\ DictGet(all_strings, PathStr(f.rel)) = HelloWorldStrings

\* when one of the candidates en[i], i in S, cannot be decoded
DecodeFailureLeaves(en, S) ==
    (\E i \in S : ~Decodable(en[i].data)) =>
        /\ \A i \in S : en[i].rel \in ProcessedPaths
        /\ \A i \in S :
              OwnResultKept(en[i], extract_localization_strings(en[i].data, identifiers))
        /\ (\E i \in S : en[i].data \in {T_match, T_old})
              => (target # Absent /\ target # <<>>)

\* C4: an undecodable file yields an empty mapping and the invocation goes on:
\* every other non-excluded file is processed with the result it has on its
\* own, and the target is written, non-empty when another file had a match.
C4_DecodeFailureIsLocal ==
    pc = "done" => DecodeFailureLeaves(Enumerated, NonExcluded)

C4_Witness ==
    /\ pc = "done"
    /\ target # <<>>
    /\ \E i, j, k \in 1..Len(console) :
          /\ i < j /\ j < k
          /\ console[i].kind = "Processing"
          /\ DictHas(all_strings, PathStr(console[i].path))
          /\ console[j].kind = "DecodeError"
          /\ console[k].kind = "Processing"
          /\ DictHas(all_strings, PathStr(console[k].path))

\* every candidate with the result it has on its own, none when excluded
OwnResults(en) ==
    [i \in 1..Len(en) |->
        [rel |-> en[i].rel, data |-> en[i].data,
         strs |-> IF IsExcluded(args.source \o en[i].rel, excluded_dirs) THEN <<>>
                  ELSE extract_localization_strings(en[i].data, identifiers)]]

HasStrings(r) == r.strs # <<>>

\* all_strings and the target hold the results kept, in their order
TargetHolds(kept) ==
    /\ all_strings = [i \in 1..Len(kept) |-> <<PathStr(kept[i].rel), kept[i].strs>>]
    /\ target = RenderAll(all_strings)
    /\ (Len(kept) = 1 /\ kept[1].rel = <<n_a_lua>> /\ kept[1].data = T_match) =>
          target = <<"-", "-", "a", ".", "l", "u", "a", "\n">>
                   \o Canonical(s_L, s_Hello) \o <<" ", "=", " ", "\"">>
                   \o s_Hello \o <<"\"", "\n">>
                   \o Canonical(s_AL, s_World) \o <<" ", "=", " ", "\"">>
                   \o s_World \o <<"\"", "\n", "\n">>

\* C7: after a completed invocation the target holds exactly the blocks of the
\* processed files that yielded strings, in processing order, and nothing of
\* its earlier content; with no candidate file it is empty and the count is 0.
C7_TargetIsExactlyTheBlocks ==
    pc = "done" =>
        /\ TargetHolds(SelectSeq(OwnResults(Enumerated), HasStrings))
        /\ rglob(tree, target_at_start) = <<>> => (target = <<>> /\ file_count = 0)

C7_Witness ==
    /\ pc = "done"
    /\ target_at_start = T_old
    /\ Len(all_strings) = 2
    /\ target # <<>>

\* C9: the target is opened only when the scan is over: while files are being
\* scanned, and after a scan that aborted, the target is as it was when the
\* invocation started; once it is written nothing is left to scan.
C9_WriteOnlyAfterScan ==
    /\ pc \in {"write", "done"} => pending = <<>>
    /\ pc \in {"scan", "aborted"} => target = target_at_start

C9_Witness ==
    /\ pc = "aborted"
    /\ target = T_old
    /\ all_strings # <<>>

LoweredNames(excluded) == {Lower(ex) : ex \in excluded}

\* the candidates processed are those whose absolute path has no segment
\* among the names
ProcessedAre(en, processed, names) ==
    \A i \in 1..Len(en) :
        (en[i].rel \in processed)
            <=> (\A k \in 1..Len(args.source) : args.source[k] \notin names)
                /\ (\A k \in 1..Len(en[i].rel) : en[i].rel[k] \notin names)

\* C10: the exclusion test looks at every segment of the absolute path, those
\* of the source directory and the file's name included; when the source
\* directory's path has a segment equal to a lower-cased excluded name,
\* nothing is processed, the count is 0 and the target is written empty.
C10_ExclusionOverAbsolutePath ==
    pc = "done" =>
        /\ (\E k \in 1..Len(args.source) : args.source[k] \in LoweredNames(excluded_dirs))
              => (ProcessedPaths = {} /\ file_count = 0 /\ target = <<>>)
        /\ ProcessedAre(Enumerated, ProcessedPaths, LoweredNames(excluded_dirs))

C10_Witness ==
    /\ pc = "done"
    /\ n_lib \in Range(args.source)
    /\ Len(Enumerated) >= 2
    /\ target_at_start = T_old
    /\ file_count = 0
    /\ target = <<>>

----------------------------------------------------------------------------
\* C5: the result of the extraction holds, for every match, the key
\* IDENT["literal"] mapped to the literal, whatever brackets and quotes the
\* source used, and nothing else; L["Hello"] AL('World') gives exactly
\* L["Hello"] -> Hello and AL["World"] -> World.
C5_CanonicalKeys ==
    (xpc # "read" /\ Decodable(text)) =>
        /\ \A n \in 1..Len(strings) :
              \E id \in Range(identifiers) :
                  /\ strings[n][1] = Canonical(id, strings[n][2])
                  /\ Occurrences(text, id, strings[n][2]) # {}
        /\ WellFormed(site) =>
              \E n \in 1..Len(strings) :
                  strings[n] = <<Canonical(site.ident, site.lit), site.lit>>
        /\ text = <<"L", "[", "\"">> \o s_Hello \o <<"\"", "]", " ", "A", "L", "(", "'">>
                  \o s_World \o <<"'", ")">>
              => strings = HelloWorldStrings

C5_Witness ==
    /\ xpc = "extracted"
    /\ text = <<"L", "[", "\"">> \o s_Hello \o <<"\"", "]", " ", "A", "L", "(", "'">>
              \o s_World \o <<"'", ")">>
    /\ strings = HelloWorldStrings

\* C6: occurrences with the same identifier and literal, whatever their
\* brackets and quotes, give one entry: the block has each key on exactly one
\* line, and the keys stand in the order of their first occurrence.
C6_OneLinePerKey ==
    xpc = "written" =>
        /\ \A m, n \in 1..Len(strings) : m # n => strings[m][1] # strings[n][1]
        /\ LET lines == Lines(block)
           IN /\ Len(lines) = Len(strings) + 3
              /\ \A n \in 1..Len(strings) :
                    LET line == strings[n][1] \o <<" ", "=", " ", "\"">>
                                \o strings[n][2] \o <<"\"">>
                    IN Cardinality({l \in 1..Len(lines) : lines[l] = line}) = 1
        /\ LET ms == FindAll(text, 1, identifiers)
               keyAt(n) == Canonical(ms[n].ident, ms[n].lit)
               first(k) == Min({n \in 1..Len(ms) : keyAt(n) = k})
           IN /\ {strings[n][1] : n \in 1..Len(strings)} = {keyAt(n) : n \in 1..Len(ms)}
              /\ \A m, n \in 1..Len(strings) :
                    m < n => first(strings[m][1]) < first(strings[n][1])

C6_Witness ==
    /\ xpc = "written"
    /\ text = CallSite(s_L, <<>>, "[", DQ, s_Hello, "]")
              \o <<SP>> \o CallSite(s_AL, <<>>, "(", SQ, s_World, ")")
              \o CallSite(s_L, <<>>, "(", SQ, s_Hello, ")")
    /\ Len(FindAll(text, 1, identifiers)) = 3
    /\ strings = HelloWorldStrings

\* C8 as stated: every call site made of an identifier, optional white space,
\* an opening bracket, a quote q, a run of characters other than q, q and a
\* closing bracket of either kind is matched, with the run as its literal.
C8_AnyCharacterButQuote ==
    (/\ xpc # "read"
     /\ Decodable(text)
     /\ site.ident \in Range(identifiers)
     /\ site.close \in {"]", ")"}
     /\ site.q \notin Range(site.lit))
        => (strings # <<>> /\ strings[1] = <<Canonical(site.ident, site.lit), site.lit>>)

\* C8 amended: such a call site is matched, with the run as its literal, when
\* the run holds neither q nor a newline; a site whose run holds q or a
\* newline is not matched.
C8_AnyCharacterButQuoteAndNewline ==
    (xpc # "read" /\ Decodable(text)) =>
        /\ WellFormed(site)
              => (strings # <<>> /\ strings[1] = <<Canonical(site.ident, site.lit), site.lit>>)
        /\ (text = SiteOf(site) /\ (site.q \in Range(site.lit) \/ "\n" \in Range(site.lit)))
              => strings = <<>>

C8_Witness ==
    /\ xpc = "extracted"
    /\ text = CallSite(s_AL, <<SP>>, "[", SQ, <<"a", DQ, "b">>, ")")
    /\ strings = << <<Canonical(s_AL, <<"a", DQ, "b">>), <<"a", DQ, "b">>>> >>

====
